---- MODULE Spec2Model ----
(***************************************************************************)
(* ThrottleTimer (src/src/lib.rs): a gate that lets an event fire at most  *)
(* once per max_frequency.  Time is counted in ticks of the monotonic      *)
(* clock (Instant) and, separately, of the wall clock (SystemTime).        *)
(***************************************************************************)
EXTENDS Integers, Sequences, FiniteSets, TLC

\* ---------------------------------------------------------------- bounds
MaxTime == 4        \* last reading of the monotonic clock that is explored
MaxFreq == 2        \* largest max_frequency a timer is constructed with
MaxCalls == 3       \* number of run_throttle_cb invocations explored
MaxDrift == 1       \* ticks that may pass between two clock readings of one call,
                    \* and by which a sleep may overrun
MaxWall == 1        \* range of the wall clock
TicksPerSec == 2    \* wall-clock ticks in one second (Duration::as_secs)

\* ------------------------------------------------------------- the state
VARIABLES
    timer,          \* the ThrottleTimer struct
    now,            \* the monotonic clock (Instant::now())
    wall,           \* the wall clock (SystemTime::now()); it may be set back
    calls,          \* how often each closure handed to the timer was invoked
    permitted,      \* number of firing calls whose run_flag was true
    op,             \* the operation that made the last step
    run_flag,       \* the bool the last can_run / run* call came to
    check_time,     \* the clock reading the last call's can_run / wait_time used
    wait,           \* the Duration the last wait_time() returned
    out,            \* what the last call returned or printed
    panicked        \* the thread has panicked

vars == <<timer, now, wall, calls, permitted, op, run_flag, check_time, wait, out, panicked>>

\* Option<Instant>
None == <<>>
Some(t) == <<t>>
unwrap(o) == o[1]

\* the closures of the callers (|| val += 1, || {})
Closures == {"success", "throttled", "noop"}
EventNames == {"Break"}

Min(a, b) == IF a <= b THEN a ELSE b

\* Instant::duration_since(earlier); never negative under the monotonic clock
duration_since(t, earlier) == IF t >= earlier THEN t - earlier ELSE 0

\* Duration - Duration panics ("overflow when subtracting durations") below zero
Overflow == -1
Duration_sub(a, b) == IF a >= b THEN a - b ELSE Overflow

\* Duration::as_secs truncates to whole seconds
as_secs(d) == d \div TicksPerSec

\* invoking a closure
invoke(env, f) == [env EXCEPT ![f] = @ + 1]

\* ThrottleTimer::new
new(max_frequency, event_name, wall_now) ==
    [maybe_last_called_time |-> None,
     max_frequency |-> max_frequency,
     event_name |-> event_name,
     total_calls |-> 0,
     created_date |-> wall_now]

\* wait_time without the .min(max_frequency) clamp
wait_time_no_min(self, t) ==
    IF self.maybe_last_called_time = None
    THEN 0
    ELSE Duration_sub(self.max_frequency,
                      duration_since(t, unwrap(self.maybe_last_called_time)))

\* ThrottleTimer::wait_time, with t the reading of Instant::now()
wait_time(self, t) ==
    IF self.maybe_last_called_time = None
    THEN 0
    ELSE Duration_sub(self.max_frequency,
                      Min(duration_since(t, unwrap(self.maybe_last_called_time)),
                          self.max_frequency))

\* SystemTime::elapsed: Err when the wall clock is before the recorded time
elapsed(date, wall_now) ==
    IF wall_now >= date
    THEN [ok |-> TRUE, d |-> wall_now - date]
    ELSE [ok |-> FALSE, d |-> date - wall_now]

\* print_stats unwrapping created_date.elapsed() instead of matching on it
print_stats_unwrap(self, wall_now) ==
    LET e == elapsed(self.created_date, wall_now) IN
    IF ~e.ok
    THEN [panic |-> TRUE, out |-> <<"panic", "called Result::unwrap() on an Err value">>]
    ELSE IF self.total_calls = 0
         THEN [panic |-> TRUE, out |-> <<"panic", "attempt to divide by zero">>]
         ELSE [panic |-> FALSE,
               out |-> <<"stdout", self.event_name, as_secs(e.d) \div self.total_calls,
                         self.total_calls, e.d>>]

\* ThrottleTimer::print_stats: the line it prints, or the integer division's panic
print_stats(self, wall_now) ==
    LET e == elapsed(self.created_date, wall_now) IN
    IF e.ok
    THEN IF self.total_calls = 0
         THEN [panic |-> TRUE, out |-> <<"panic", "attempt to divide by zero">>]
         ELSE [panic |-> FALSE,
               out |-> <<"stdout", self.event_name, as_secs(e.d) \div self.total_calls,
                         self.total_calls, e.d>>]
    ELSE [panic |-> FALSE, out |-> <<"stderr", e.d>>]

\* can_run that refuses a timer that never fired
can_run_none_false(self, t) ==
    [self |-> self,
     ret |-> IF self.maybe_last_called_time = None
             THEN FALSE
             ELSE duration_since(t, unwrap(self.maybe_last_called_time)) >= self.max_frequency]

\* can_run that permits one tick early
can_run_early(self, t) ==
    [self |-> self,
     ret |-> IF self.maybe_last_called_time = None
             THEN TRUE
             ELSE duration_since(t, unwrap(self.maybe_last_called_time)) + 1 >= self.max_frequency]

\* can_run comparing with > instead of >=
can_run_strict(self, t) ==
    [self |-> self,
     ret |-> IF self.maybe_last_called_time = None
             THEN TRUE
             ELSE duration_since(t, unwrap(self.maybe_last_called_time)) > self.max_frequency]

\* can_run that uses its &mut self to record the time it permits
can_run_stamps(self, t) ==
    LET ok == IF self.maybe_last_called_time = None
              THEN TRUE
              ELSE duration_since(t, unwrap(self.maybe_last_called_time)) >= self.max_frequency
    IN [self |-> IF ok THEN [self EXCEPT !.maybe_last_called_time = Some(t)] ELSE self,
        ret |-> ok]

\* ThrottleTimer::can_run(&mut self), with t the reading of Instant::now()
can_run(self, t) ==
    [self |-> self,
     ret |-> IF self.maybe_last_called_time = None
             THEN TRUE
             ELSE duration_since(t, unwrap(self.maybe_last_called_time)) >= self.max_frequency]

\* run_throttle_cb recording the time before it looks at run_flag
run_throttle_cb_stamps_always(self, env, success, throttled, t1, t2) ==
    LET c == can_run(self, t1) IN
    IF c.ret
    THEN [self |-> [c.self EXCEPT !.maybe_last_called_time = Some(t2),
                                  !.total_calls = @ + 1],
          env |-> invoke(env, success),
          ret |-> c.ret]
    ELSE [self |-> [c.self EXCEPT !.maybe_last_called_time = Some(t2)],
          env |-> invoke(env, throttled),
          ret |-> c.ret]

\* run_throttle_cb counting every call, permitted or not
run_throttle_cb_counts_always(self, env, success, throttled, t1, t2) ==
    LET c == can_run(self, t1) IN
    IF c.ret
    THEN [self |-> [c.self EXCEPT !.maybe_last_called_time = Some(t2),
                                  !.total_calls = @ + 1],
          env |-> invoke(env, success),
          ret |-> c.ret]
    ELSE [self |-> [c.self EXCEPT !.total_calls = @ + 1],
          env |-> invoke(env, throttled),
          ret |-> c.ret]

\* run_throttle_cb without the else: throttled runs after success too
run_throttle_cb_no_else(self, env, success, throttled, t1, t2) ==
    LET c == can_run(self, t1) IN
    IF c.ret
    THEN [self |-> [c.self EXCEPT !.maybe_last_called_time = Some(t2),
                                  !.total_calls = @ + 1],
          env |-> invoke(invoke(env, success), throttled),
          ret |-> c.ret]
    ELSE [self |-> c.self,
          env |-> invoke(env, throttled),
          ret |-> c.ret]

\* run_throttle_cb clearing the last-called time when it throttles
run_throttle_cb_resets(self, env, success, throttled, t1, t2) ==
    LET c == can_run(self, t1) IN
    IF c.ret
    THEN [self |-> [c.self EXCEPT !.maybe_last_called_time = Some(t2),
                                  !.total_calls = @ + 1],
          env |-> invoke(env, success),
          ret |-> c.ret]
    ELSE [self |-> [c.self EXCEPT !.maybe_last_called_time = None],
          env |-> invoke(env, throttled),
          ret |-> c.ret]

\* ThrottleTimer::run_throttle_cb, where t1 is the clock reading of can_run and t2
\* the reading that is recorded
run_throttle_cb(self, env, success, throttled, t1, t2) ==
    LET c == can_run(self, t1) IN
    IF c.ret
    THEN [self |-> [c.self EXCEPT !.maybe_last_called_time = Some(t2),
                                  !.total_calls = @ + 1],
          env |-> invoke(env, success),
          ret |-> c.ret]
    ELSE [self |-> c.self,
          env |-> invoke(env, throttled),
          ret |-> c.ret]

\* run handing success to both branches
run_success_twice(self, env, success, t1, t2) ==
    run_throttle_cb(self, env, success, success, t1, t2)

\* ThrottleTimer::run(success)
run(self, env, success, t1, t2) ==
    run_throttle_cb(self, env, success, "noop", t1, t2)

\* thread::sleep(dur) begun at t: the clock when it returns (over: oversleep)
thread_sleep(t, dur, over) == t + dur + over

\* run_wait that does not sleep
run_wait_no_sleep(self, env, success, t0, over, d) ==
    LET w == wait_time(self, t0)
        r == run_throttle_cb(self, env, success, "noop", t0, t0 + d)
    IN [self |-> r.self, env |-> r.env, ret |-> r.ret, wait |-> w,
        panic |-> FALSE, t1 |-> t0, t2 |-> t0 + d]

\* ThrottleTimer::run_wait(success): t0 is the clock reading of wait_time; the record
\* also tells the requested sleep and the clock at return
run_wait(self, env, success, t0, over, d) ==
    LET w == wait_time(self, t0) IN
    IF w = Overflow
    THEN [self |-> self, env |-> env, ret |-> FALSE, wait |-> w, panic |-> TRUE,
          t1 |-> t0, t2 |-> t0]
    ELSE LET t1 == thread_sleep(t0, w, over)
             r == run_throttle_cb(self, env, success, "noop", t1, t1 + d)
         IN [self |-> r.self, env |-> r.env, ret |-> r.ret, wait |-> w,
             panic |-> FALSE, t1 |-> t1, t2 |-> t1 + d]

\* run_with_msg computing the time since the last call before it calls run
run_with_msg_unwrap_first(self, env, success, t1, t2, t3) ==
    LET r == run(self, env, success, t1, t2) IN
    IF self.maybe_last_called_time = None
    THEN [self |-> self, env |-> env, ret |-> FALSE, panic |-> TRUE,
          out |-> <<"panic", "called Option::unwrap() on a None value">>]
    ELSE IF r.ret
         THEN [self |-> r.self, env |-> r.env, ret |-> r.ret, panic |-> FALSE, out |-> <<>>]
         ELSE [self |-> r.self, env |-> r.env, ret |-> r.ret, panic |-> FALSE,
               out |-> <<"stdout", r.self.event_name,
                         duration_since(t3, unwrap(self.maybe_last_called_time))>>]

\* ThrottleTimer::run_with_msg: t3 is the clock reading of the message
run_with_msg(self, env, success, t1, t2, t3) ==
    LET r == run(self, env, success, t1, t2) IN
    IF r.ret
    THEN [self |-> r.self, env |-> r.env, ret |-> r.ret, panic |-> FALSE, out |-> <<>>]
    ELSE IF r.self.maybe_last_called_time = None
         THEN [self |-> r.self, env |-> r.env, ret |-> r.ret, panic |-> TRUE,
               out |-> <<"panic", "called Option::unwrap() on a None value">>]
         ELSE [self |-> r.self, env |-> r.env, ret |-> r.ret, panic |-> FALSE,
               out |-> <<"stdout", r.self.event_name,
                         duration_since(t3, unwrap(r.self.maybe_last_called_time))>>]

\* --------------------------------------------------------------- actions
Init ==
    /\ wall \in 0..MaxWall
    /\ \E f \in 0..MaxFreq, n \in EventNames : timer = new(f, n, wall)
    /\ now = 0
    /\ calls = [c \in Closures |-> 0]
    /\ permitted = 0
    /\ op = "new"
    /\ run_flag = FALSE
    /\ check_time = 0
    /\ wait = 0
    /\ out = <<>>
    /\ panicked = FALSE

\* run_throttle_cb invocations made so far
Invocations == calls["success"] + calls["throttled"] + calls["noop"]

Count(flag) == IF flag THEN 1 ELSE 0

\* the caller sleeps, or works, between two calls: the monotonic clock advances
Sleep ==
    /\ ~panicked
    /\ now < MaxTime
    /\ now' = now + 1
    /\ op' = "sleep"
    /\ run_flag' = FALSE /\ check_time' = now /\ wait' = 0 /\ out' = <<>>
    /\ UNCHANGED <<timer, wall, calls, permitted, panicked>>

\* the wall clock moves, forward or back
WallClock ==
    /\ ~panicked
    /\ \E w \in 0..MaxWall : w # wall /\ wall' = w
    /\ op' = "wall_clock"
    /\ run_flag' = FALSE /\ check_time' = now /\ wait' = 0 /\ out' = <<>>
    /\ UNCHANGED <<timer, now, calls, permitted, panicked>>

\* timer.can_run()
CanRun ==
    /\ ~panicked
    /\ LET c == can_run(timer, now)
       IN /\ timer' = c.self
          /\ run_flag' = c.ret
    /\ op' = "can_run"
    /\ check_time' = now /\ wait' = 0 /\ out' = <<>>
    /\ UNCHANGED <<now, wall, calls, permitted, panicked>>

\* timer.wait_time()
WaitTime ==
    /\ ~panicked
    /\ LET w == wait_time(timer, now)
       IN /\ wait' = w
          /\ panicked' = (w = Overflow)
    /\ op' = "wait_time"
    /\ run_flag' = FALSE /\ check_time' = now /\ out' = <<>>
    /\ UNCHANGED <<timer, now, wall, calls, permitted>>

\* timer.total_calls(), timer.max_frequency(), timer.event_name(), timer.created_date()
Accessor ==
    /\ ~panicked
    /\ \/ op' = "total_calls" /\ out' = <<timer.total_calls>>
       \/ op' = "max_frequency" /\ out' = <<timer.max_frequency>>
       \/ op' = "event_name" /\ out' = <<timer.event_name>>
       \/ op' = "created_date" /\ out' = <<timer.created_date>>
    /\ run_flag' = FALSE /\ check_time' = now /\ wait' = 0
    /\ UNCHANGED <<timer, now, wall, calls, permitted, panicked>>

\* timer.print_stats()
PrintStats ==
    /\ ~panicked
    /\ LET r == print_stats(timer, wall)
       IN /\ out' = r.out
          /\ panicked' = r.panic
    /\ op' = "print_stats"
    /\ run_flag' = FALSE /\ check_time' = now /\ wait' = 0
    /\ UNCHANGED <<timer, now, wall, calls, permitted>>

\* timer.run_throttle_cb(&mut success, &mut throttled)
RunThrottleCb ==
    /\ ~panicked
    /\ Invocations < MaxCalls
    /\ \E d \in 0..MaxDrift :
         LET t1 == now
             t2 == t1 + d
             r == run_throttle_cb(timer, calls, "success", "throttled", t1, t2)
         IN /\ t2 <= MaxTime
            /\ timer' = r.self
            /\ calls' = r.env
            /\ run_flag' = r.ret
            /\ permitted' = permitted + Count(r.ret)
            /\ check_time' = t1
            /\ now' = t2
    /\ op' = "run_throttle_cb"
    /\ wait' = 0 /\ out' = <<>>
    /\ UNCHANGED <<wall, panicked>>

\* timer.run(&mut success)
Run ==
    /\ ~panicked
    /\ Invocations < MaxCalls
    /\ \E d \in 0..MaxDrift :
         LET t1 == now
             t2 == t1 + d
             r == run(timer, calls, "success", t1, t2)
         IN /\ t2 <= MaxTime
            /\ timer' = r.self
            /\ calls' = r.env
            /\ run_flag' = r.ret
            /\ permitted' = permitted + Count(r.ret)
            /\ check_time' = t1
            /\ now' = t2
    /\ op' = "run"
    /\ wait' = 0 /\ out' = <<>>
    /\ UNCHANGED <<wall, panicked>>

\* timer.run_wait(&mut success)
RunWait ==
    /\ ~panicked
    /\ Invocations < MaxCalls
    /\ \E over, d \in 0..MaxDrift :
         LET t0 == now
             r == run_wait(timer, calls, "success", t0, over, d)
         IN /\ r.t2 <= MaxTime
            /\ timer' = r.self
            /\ calls' = r.env
            /\ run_flag' = r.ret
            /\ permitted' = permitted + Count(r.ret)
            /\ wait' = r.wait
            /\ panicked' = r.panic
            /\ check_time' = t0
            /\ now' = r.t2
    /\ op' = "run_wait"
    /\ out' = <<>>
    /\ UNCHANGED <<wall>>

\* timer.run_with_msg(&mut success)
RunWithMsg ==
    /\ ~panicked
    /\ Invocations < MaxCalls
    /\ \E d \in 0..MaxDrift :
         LET t1 == now
             t2 == t1 + d
             r == run_with_msg(timer, calls, "success", t1, t2, t2)
         IN /\ t2 <= MaxTime
            /\ timer' = r.self
            /\ calls' = r.env
            /\ run_flag' = r.ret
            /\ permitted' = permitted + Count(r.ret)
            /\ out' = r.out
            /\ panicked' = r.panic
            /\ check_time' = t1
            /\ now' = t2
    /\ op' = "run_with_msg"
    /\ wait' = 0
    /\ UNCHANGED <<wall>>

Next ==
    \/ Sleep
    \/ WallClock
    \/ CanRun
    \/ WaitTime
    \/ Accessor
    \/ PrintStats
    \/ RunThrottleCb
    \/ Run
    \/ RunWait
    \/ RunWithMsg

Spec == Init /\ [][Next]_vars

\* the states are well-formed
TypeOK ==
    /\ timer.maybe_last_called_time \in {None} \cup {Some(t) : t \in 0..MaxTime}
    /\ timer.total_calls \in 0..MaxCalls
    /\ timer.max_frequency \in 0..MaxFreq
    /\ timer.event_name \in EventNames
    /\ timer.created_date \in 0..MaxWall
    /\ now \in 0..MaxTime
    /\ wall \in 0..MaxWall
    /\ calls \in [Closures -> 0..MaxCalls]
    /\ permitted \in 0..MaxCalls
    /\ run_flag \in BOOLEAN
    /\ check_time \in 0..MaxTime
    /\ wait \in 0..MaxFreq
    /\ panicked \in BOOLEAN

\* ---------------------------------------------------------------- claims
FiringOps == {"run", "run_throttle_cb", "run_with_msg", "run_wait"}
ReadOnlyOps == {"can_run", "wait_time", "total_calls", "max_frequency",
                "event_name", "created_date", "print_stats"}
Last == timer.maybe_last_called_time

\* C1: the first run / run_throttle_cb call on a freshly constructed timer
\* (maybe_last_called_time = None, total_calls = 0), whatever max_frequency is,
\* returns true and leaves total_calls = 1 and maybe_last_called_time set.
C1_FirstCallFires ==
    [][(/\ op' \in {"run", "run_throttle_cb"}
        /\ timer.maybe_last_called_time = None
        /\ timer.total_calls = 0)
       => (/\ run_flag'
           /\ timer'.total_calls = 1
           /\ timer'.maybe_last_called_time # None)]_vars

C1_Witness ==
    /\ op = "run" /\ run_flag
    /\ Invocations = 1
    /\ timer.total_calls = 1
    /\ timer.max_frequency = MaxFreq

\* C2: after a fire, a run / run_throttle_cb call whose clock reading is less
\* than max_frequency after the recorded last-called time returns false and
\* leaves the timer (total_calls and maybe_last_called_time) as it was.
C2_ThrottledKeepsState ==
    [][(/\ op' \in {"run", "run_throttle_cb"}
        /\ Last # None
        /\ check_time' - unwrap(Last) < timer.max_frequency)
       => (~run_flag' /\ timer' = timer)]_vars

C2_Witness ==
    /\ op = "run" /\ ~run_flag
    /\ timer.total_calls = 1
    /\ calls["noop"] >= 2

\* C3: two consecutive permitted fires are at least max_frequency apart: when a
\* fire replaces Some(t_old) by Some(t_new), t_new - t_old >= max_frequency.
C3_FiresApart ==
    [][(/\ Last # None
        /\ \/ op' \in FiringOps /\ run_flag'
           \/ timer'.maybe_last_called_time # Last)
       => (/\ timer'.maybe_last_called_time # None
           /\ unwrap(timer'.maybe_last_called_time) - unwrap(Last)
                >= timer.max_frequency)]_vars

C3_Witness ==
    /\ op \in FiringOps /\ run_flag
    /\ timer.total_calls >= 2
    /\ timer.max_frequency >= 1
    /\ unwrap(Last) > check_time

\* C4: when at least max_frequency has elapsed on the monotonic clock since the
\* recorded last-called time, the next run call returns true, records a new
\* last-called time and increments total_calls.
C4_FiresAfterInterval ==
    [][(/\ op' \in {"run", "run_throttle_cb", "run_with_msg"}
        /\ Last # None
        /\ now - unwrap(Last) >= timer.max_frequency)
       => (/\ run_flag'
           /\ timer'.total_calls = timer.total_calls + 1
           /\ timer'.maybe_last_called_time # None
           /\ unwrap(timer'.maybe_last_called_time) >= now)]_vars

C4_Witness ==
    /\ op = "run" /\ run_flag
    /\ timer.total_calls = 3
    /\ Invocations = 3
    /\ timer.max_frequency >= 1

\* C5: total_calls equals the number of permitted firing calls; it increases by
\* exactly 1 on each permitted fire and never changes otherwise.
C5_CallCount ==
    /\ [](timer.total_calls = permitted)
    /\ [][IF op' \in FiringOps /\ run_flag'
          THEN timer'.total_calls = timer.total_calls + 1
          ELSE timer'.total_calls = timer.total_calls]_vars

C5_Witness ==
    /\ timer.total_calls = 2
    /\ permitted = 2
    /\ Invocations = 3
    /\ op = "wait_time"

\* C6: run(success) invokes success exactly once if it returns true and not at
\* all if it returns false; the success invocations number total_calls.
C6_SuccessOncePerFire ==
    /\ [](calls["success"] = timer.total_calls)
    /\ [][op' = "run" =>
            calls'["success"] = calls["success"] + Count(run_flag')]_vars

C6_Witness ==
    /\ op = "run" /\ ~run_flag
    /\ calls["success"] = 1
    /\ Invocations = 3

\* C7: run_throttle_cb(success, throttled) runs exactly one of the two
\* callbacks exactly once: success when it returns true and the state was
\* updated, throttled when it returns false and the state was left unchanged.
C7_ExactlyOneCallback ==
    [][op' = "run_throttle_cb" =>
        \/ /\ run_flag'
           /\ calls' = [calls EXCEPT !["success"] = @ + 1]
           /\ timer'.total_calls = timer.total_calls + 1
           /\ timer'.maybe_last_called_time # None
        \/ /\ ~run_flag'
           /\ calls' = [calls EXCEPT !["throttled"] = @ + 1]
           /\ timer' = timer]_vars

C7_Witness ==
    /\ op = "run_throttle_cb" /\ ~run_flag
    /\ calls["success"] = 1
    /\ calls["throttled"] = 1

\* C8: every run_wait(success) call fires: it invokes success exactly once and
\* increases total_calls by exactly 1, the sleep lasting at least wait_time().
C8_RunWaitFires ==
    [][op' = "run_wait" =>
        /\ ~panicked'
        /\ run_flag'
        /\ calls' = [calls EXCEPT !["success"] = @ + 1]
        /\ timer'.total_calls = timer.total_calls + 1]_vars

C8_Witness ==
    /\ op = "run_wait"
    /\ wait > 0
    /\ timer.total_calls = 3
    /\ calls["success"] = 3

\* what C9 says wait_time() returns at clock reading t
C9_Expected(t) ==
    IF Last = None THEN 0
    ELSE IF t - unwrap(Last) < timer.max_frequency
         THEN timer.max_frequency - (t - unwrap(Last))
         ELSE 0

\* C9: wait_time() is 0 when the timer never fired, max_frequency - (now - last)
\* inside the interval and 0 after it; it lies in [0, max_frequency] and the
\* subtraction never underflows.
C9_WaitTime ==
    /\ \A t \in now..(MaxTime + MaxFreq + 1) :
         /\ wait_time(timer, t) \in 0..timer.max_frequency
         /\ wait_time(timer, t) = C9_Expected(t)
    /\ op \in {"wait_time", "run_wait"} =>
         /\ ~panicked
         /\ wait \in 0..timer.max_frequency
    /\ op = "wait_time" => wait = C9_Expected(check_time)

C9_Witness ==
    /\ op = "wait_time"
    /\ Last # None
    /\ wait > 0 /\ wait < timer.max_frequency

\* C10: can_run, wait_time, total_calls, max_frequency, event_name,
\* created_date and print_stats leave every field of the timer unchanged, and
\* so the result of a later run call at any clock time.
C10_ReadOnly ==
    [][op' \in ReadOnlyOps =>
        /\ timer' = timer
        /\ calls' = calls
        /\ \A t \in now..MaxTime :
             run(timer', calls', "success", t, t) = run(timer, calls, "success", t, t)]_vars

C10_Witness ==
    /\ op = "can_run" /\ ~run_flag
    /\ timer.total_calls = 1
    /\ Invocations = 1

\* C11: print_stats never divides by zero: called on a timer with
\* total_calls = 0 it completes without a division fault.
C11_NoDivisionByZero ==
    (op = "print_stats" /\ timer.total_calls = 0) => ~panicked

\* C12: with max_frequency = 0 every run / run_throttle_cb call returns true and
\* invokes success, so total_calls equals the number of calls made.
C12_ZeroIntervalAlwaysFires ==
    /\ [](timer.max_frequency = 0 => timer.total_calls = Invocations)
    /\ [][(op' \in {"run", "run_throttle_cb"} /\ timer.max_frequency = 0)
          => (/\ run_flag'
              /\ calls' = [calls EXCEPT !["success"] = @ + 1])]_vars

C12_Witness ==
    /\ timer.max_frequency = 0
    /\ op = "run" /\ run_flag
    /\ timer.total_calls = 3
    /\ now = 0

\* C13: maybe_last_called_time, once Some(t), never returns to None and is only
\* replaced by a value t' >= t; max_frequency and event_name never change.
C13_LastCalledMonotonic ==
    [][/\ Last # None =>
            /\ timer'.maybe_last_called_time # None
            /\ unwrap(timer'.maybe_last_called_time) >= unwrap(Last)
       /\ timer'.max_frequency = timer.max_frequency
       /\ timer'.event_name = timer.event_name]_vars

C13_Witness ==
    /\ op \in FiringOps /\ run_flag
    /\ timer.total_calls >= 2
    /\ unwrap(Last) >= 2

\* C14: can_run and run apply the same policy, and permission is stable until
\* the next fire: once can_run returns true, run at any later time with no fire
\* in between returns true; where can_run returns false, run at the same clock
\* reading returns false.
C14_SamePolicy ==
    /\ [](op = "can_run" =>
            /\ run(timer, calls, "success", check_time, check_time).ret = run_flag
            /\ run_flag => \A t \in check_time..MaxTime :
                              run(timer, calls, "success", t, t).ret)
    /\ [][/\ (can_run(timer, now).ret /\ ~(op' \in FiringOps /\ run_flag'))
               => can_run(timer', now').ret
          /\ op' \in {"run", "run_throttle_cb", "run_with_msg"}
               => run_flag' = can_run(timer, check_time').ret]_vars

C14_Witness ==
    /\ op = "can_run" /\ run_flag
    /\ Last # None
    /\ timer.max_frequency >= 1

\* C16: when the wall clock is before created_date, print_stats reports the
\* error and returns without panicking, without a rate and without changing the
\* timer; run, can_run and wait_time still follow the monotonic clock alone.
C16_ClockAnomaly ==
    [][wall < timer.created_date =>
        /\ op' = "print_stats" =>
              /\ ~panicked'
              /\ out' = <<"stderr", timer.created_date - wall>>
              /\ timer' = timer
        /\ op' \in {"run", "can_run"} =>
              run_flag' = (Last = None \/ check_time' - unwrap(Last) >= timer.max_frequency)
        /\ op' = "wait_time" =>
              /\ ~panicked'
              /\ wait' = C9_Expected(check_time')]_vars

C16_Witness ==
    /\ op = "print_stats"
    /\ wall < timer.created_date
    /\ timer.total_calls = 0
    /\ ~panicked
    /\ out = <<"stderr", 1>>

\* C17: run_with_msg returns what run returns and makes the same state change,
\* and its throttled branch never panics: when run returns false,
\* maybe_last_called_time is Some.
C17_RunWithMsgAsRun ==
    /\ [](\A d \in 0..MaxDrift :
            LET a == run_with_msg(timer, calls, "success", now, now + d, now + d)
                b == run(timer, calls, "success", now, now + d)
            IN /\ ~a.panic
               /\ a.ret = b.ret /\ a.self = b.self /\ a.env = b.env)
    /\ [][op' = "run_with_msg" =>
            /\ ~panicked'
            /\ run_flag' = run(timer, calls, "success", check_time', now').ret
            /\ timer' = run(timer, calls, "success", check_time', now').self
            /\ calls' = run(timer, calls, "success", check_time', now').env]_vars

C17_Witness ==
    /\ op = "run_with_msg" /\ ~run_flag
    /\ ~panicked
    /\ Len(out) = 3 /\ out[1] = "stdout"

\* C18: total_calls = 0 exactly when maybe_last_called_time is None; the two
\* fields change together, in the permitted branch of run_throttle_cb only.
C18_NeverFiredState ==
    /\ [](timer.total_calls = 0 <=> Last = None)
    /\ [][(timer'.total_calls # timer.total_calls
            \/ timer'.maybe_last_called_time # Last)
          => (/\ op' \in FiringOps /\ run_flag'
              /\ timer'.total_calls = timer.total_calls + 1
              /\ timer'.maybe_last_called_time # None)]_vars

C18_Witness ==
    /\ op = "run_throttle_cb" /\ ~run_flag
    /\ timer.total_calls = 1
    /\ Last # None

\* ------------------------------------------------- the caller's polling loop
\* for _ in 0..n { timer.run(..); thread::sleep(..) }: a call, then a tick of
\* sleep; the loop may poll can_run before the call
LoopCanRun == op \notin {"run", "can_run"} /\ CanRun

LoopRun == op # "run" /\ Run

LoopSleep == op = "run" /\ Sleep

LiveNext ==
    \/ LoopCanRun
    \/ LoopRun
    \/ LoopSleep

\* the loop keeps going: the clock keeps advancing and run keeps being called
LiveSpec == Init /\ [][LiveNext]_vars /\ WF_vars(LoopRun) /\ WF_vars(LoopSleep)

Max(a, b) == IF a >= b THEN a ELSE b

\* ticks still missing until max_frequency has elapsed since the last fire
C15_Need == IF Last = None THEN 0 ELSE Max(0, unwrap(Last) + timer.max_frequency - now)

\* the explored clock range and number of calls leave room for the loop to
\* reach the first call made max_frequency after the last fire: a throttled
\* call may take up to MaxDrift ticks and is followed by a tick of sleep
C15_Room ==
    /\ ~panicked
    /\ IF C15_Need = 0
       THEN now + 1 <= MaxTime
       ELSE unwrap(Last) + timer.max_frequency + MaxDrift <= MaxTime
    /\ Invocations + (IF op = "run" THEN Max(C15_Need, 1) ELSE C15_Need + 1) <= MaxCalls

\* C15: the gate has no terminal or permanently blocked state: while the clock
\* keeps advancing and the caller keeps calling run, a call eventually returns
\* true, and again after every fire.
C15_EventuallyFires ==
    \A n \in 0..MaxCalls :
        (C15_Room /\ timer.total_calls = n)
            ~> (op = "run" /\ run_flag /\ timer.total_calls = n + 1)

C15_Witness ==
    /\ op = "run" /\ run_flag
    /\ timer.total_calls = 2
    /\ timer.max_frequency = 2
    /\ calls["noop"] = 1

\* --------------------------------------- the earlier revision (src/lib.rs)
\* ThrottleTimer::new of the earlier revision
old_new(frequency, event_name, wall_now) ==
    [maybe_last_called_time |-> None,
     frequency |-> frequency,
     event_name |-> event_name,
     total_calls |-> 0,
     created_date |-> wall_now]

\* wait_time of the earlier revision, with t the reading of Instant::now():
\* the time since the last call minus frequency
old_wait_time(self, t) ==
    IF self.maybe_last_called_time = None
    THEN [panic |-> TRUE, d |-> 0,
          out |-> <<"panic", "called Option::unwrap() on a None value">>]
    ELSE LET d == Duration_sub(duration_since(t, unwrap(self.maybe_last_called_time)),
                               self.frequency)
         IN IF d = Overflow
            THEN [panic |-> TRUE, d |-> 0,
                  out |-> <<"panic", "overflow when subtracting durations">>]
            ELSE [panic |-> FALSE, d |-> d, out |-> <<>>]

\* do_run, with t its one reading of Instant::now()
do_run(self, t) ==
    LET do_run_flag == IF self.maybe_last_called_time = None
                       THEN TRUE
                       ELSE duration_since(t, unwrap(self.maybe_last_called_time))
                                >= self.frequency
    IN IF do_run_flag
       THEN [self |-> [self EXCEPT !.maybe_last_called_time = Some(t),
                                   !.total_calls = @ + 1],
             ret |-> do_run_flag]
       ELSE [self |-> self, ret |-> do_run_flag]

\* do_run_with_msg: t1 is do_run's clock reading, t3 that of the time since the
\* last call and t4 that of wait_time()
do_run_with_msg(self, t1, t3, t4) ==
    LET r == do_run(self, t1) IN
    IF r.ret
    THEN [self |-> r.self, ret |-> r.ret, panic |-> FALSE, out |-> <<>>]
    ELSE IF r.self.maybe_last_called_time = None
         THEN [self |-> r.self, ret |-> r.ret, panic |-> TRUE,
               out |-> <<"panic", "called Option::unwrap() on a None value">>]
         ELSE LET w == old_wait_time(r.self, t4) IN
              IF w.panic
              THEN [self |-> r.self, ret |-> r.ret, panic |-> TRUE, out |-> w.out]
              ELSE [self |-> r.self, ret |-> r.ret, panic |-> FALSE,
                    out |-> <<"stdout", r.self.event_name,
                              duration_since(t3, unwrap(r.self.maybe_last_called_time)),
                              w.d>>]

OldInit ==
    /\ wall \in 0..MaxWall
    /\ \E f \in 0..MaxFreq, n \in EventNames : timer = old_new(f, n, wall)
    /\ now = 0
    /\ calls = [c \in Closures |-> 0]
    /\ permitted = 0
    /\ op = "new"
    /\ run_flag = FALSE
    /\ check_time = 0
    /\ wait = 0
    /\ out = <<>>
    /\ panicked = FALSE

\* timer.do_run()
DoRun ==
    /\ ~panicked
    /\ timer.total_calls < MaxCalls
    /\ LET r == do_run(timer, now)
       IN /\ timer' = r.self
          /\ run_flag' = r.ret
          /\ permitted' = permitted + Count(r.ret)
    /\ op' = "do_run"
    /\ check_time' = now /\ wait' = 0 /\ out' = <<>>
    /\ UNCHANGED <<now, wall, calls, panicked>>

\* timer.do_run_with_msg()
DoRunWithMsg ==
    /\ ~panicked
    /\ timer.total_calls < MaxCalls
    /\ \E d3, d4 \in 0..MaxDrift :
         LET t1 == now
             t3 == t1 + d3
             t4 == t3 + d4
             r == do_run_with_msg(timer, t1, t3, t4)
         IN /\ t4 <= MaxTime
            /\ timer' = r.self
            /\ run_flag' = r.ret
            /\ permitted' = permitted + Count(r.ret)
            /\ out' = r.out
            /\ panicked' = r.panic
            /\ now' = IF r.ret THEN t1 ELSE t4
    /\ op' = "do_run_with_msg"
    /\ check_time' = now /\ wait' = 0
    /\ UNCHANGED <<wall, calls>>

\* timer.wait_time() of the earlier revision
OldWaitTime ==
    /\ ~panicked
    /\ LET w == old_wait_time(timer, now)
       IN /\ wait' = w.d
          /\ out' = w.out
          /\ panicked' = w.panic
    /\ op' = "wait_time"
    /\ run_flag' = FALSE /\ check_time' = now
    /\ UNCHANGED <<timer, now, wall, calls, permitted>>

OldNext ==
    \/ Sleep
    \/ DoRun
    \/ DoRunWithMsg
    \/ OldWaitTime

OldSpec == OldInit /\ [][OldNext]_vars

\* C19: do_run_with_msg is do_run plus a message when throttled: it returns the
\* same value and makes the same state change as do_run, and when throttled it
\* completes normally after printing the time since the last call and
\* wait_time().
C19_DoRunWithMsgAsDoRun ==
    [][op' = "do_run_with_msg" =>
        /\ ~panicked'
        /\ run_flag' = do_run(timer, check_time').ret
        /\ timer' = do_run(timer, check_time').self
        /\ ~run_flag' => (Len(out') = 4 /\ out'[1] = "stdout")]_vars

====
